---- MODULE Spec2Model ----
(***************************************************************************)
(* Model of the datamining repository:                                     *)
(*   - collision/ais raw data/main.py : fetch_events_recent, the paginated *)
(*     event fetch with 429 backoff;                                       *)
(*   - weather/waves/join_all.py : sample_vars_to_points (nearest-         *)
(*     neighbour sampling of a gridded dataset at AIS points) and main     *)
(*     (merge of the sampled columns, derived relative angles, sectors).   *)
(* Three programs share the module; each has its own specification and    *)
(* leaves the variables of the others untouched.                           *)
(***************************************************************************)
EXTENDS Integers, Sequences, FiniteSets, TLC

VARIABLES
    \* ---- fetch_events_recent (main.py) ----
    target_rows,   \* parameter target_rows
    page_limit,    \* parameter page_limit (params["limit"])
    offset,        \* params["offset"]
    page,          \* page counter
    all_entries,   \* accumulated entries
    backoff,       \* backoff delay, in milliseconds
    slept,         \* argument of the last time.sleep, in milliseconds
    requests,      \* number of session.get calls issued
    n429,          \* number of 429 answers so far (the server's budget)
    resp,          \* the last response received
    df,            \* the table returned (and saved when not empty)
    saved,         \* whether df.to_csv ran
    fpc,           \* position: "loop", "flatten", "done", "error"
    \* ---- derived quantities of join_all.main, one row of out ----
    row,           \* column name -> value of one row of out
    dpc,           \* position: "waves", "wind", "done"
    \* ---- one call of sample_vars_to_points (join_all.py) ----
    nc_path,       \* the source: its path, whether it exists and opens, its dataset
    ais_df,        \* the AIS points: a sequence of [lat, lon, ts_utc]
    wanted,        \* the requested variable names
    call,          \* the locals of the call: ds, lat_name, ..., and its outcome
    spc,           \* position in the call: "open", "find", ..., "done"
    \* ---- join_all.main ----
    argv,          \* the inputs: the AIS csv and the three sources
    ais,           \* the AIS table after the rename
    waves,         \* the call sampling the wave source; .value is its mapping
    currs,         \* the call sampling the current source
    wind,          \* the call sampling the wind source
    out,           \* the output table
    out_csv,       \* the table written
    jpc            \* position: "read", "waves", ..., "done", "failed"

fetchVars == <<target_rows, page_limit, offset, page, all_entries, backoff,
               slept, requests, n429, resp, df, saved, fpc>>
derivedVars == <<row, dpc>>
sampleVars == <<nc_path, ais_df, wanted, call, spc>>
joinVars == <<argv, ais, waves, currs, wind, out, out_csv, jpc>>
vars == <<fetchVars, derivedVars, sampleVars, joinVars>>

None == "None"

Min(a, b) == IF a < b THEN a ELSE b
Abs(a) == IF a < 0 THEN -a ELSE a

(***************************************************************************)
(* fetch_events_recent                                                     *)
(***************************************************************************)
MaxTarget == 3      \* target_rows ranges over 1..MaxTarget
MaxLimit == 2       \* page_limit ranges over 1..MaxLimit
MaxPage == 2        \* a successful page carries 0..MaxPage entries
MaxNext == 3        \* a server-provided nextOffset ranges over 0..MaxNext
Max429 == 6         \* the server answers 429 at most Max429 times

InitialBackoffMs == 1000
BackoffCapMs == 30000
PoliteSleepMs == 250

ErrorStatuses == {400, 401, 404, 500, 503}
\* data.get("nextOffset"): <<>> stands for None, <<n>> for the offset n
NextOffsets == {<<>>} \cup {<<n>> : n \in 0 .. MaxNext}

\* backoff = min(backoff * 2, 30), without the cap
NextBackoffUncapped(b) == b * 2
\* backoff = min(backoff * 2, 30)
NextBackoff(b) == Min(b * 2, BackoffCapMs)

\* len(all_entries) > target_rows instead of >=
TargetReachedStrict(n, t) == n > t
\* if len(all_entries) >= target_rows: break
TargetReached(n, t) == n >= t

\* params["offset"] = next_offset, or offset + limit when it is None
AdvanceOffset(off, limit, next_offset) ==
    IF next_offset = <<>> THEN off + limit ELSE next_offset[1]

\* pd.json_normalize(all_entries): one row per entry, in order
JsonNormalize(entries) == [i \in 1 .. Len(entries) |-> [entry |-> entries[i]]]

\* the entries of the k-entry page answering request number r
PageEntries(r, k) == [j \in 1 .. k |-> <<r, j>>]

NoResponse == [status |-> 0, entries |-> <<>>, nextOffset |-> <<>>]

FetchInit ==
    /\ target_rows \in 1 .. MaxTarget
    /\ page_limit \in 1 .. MaxLimit
    /\ offset = 0
    /\ page = 0
    /\ all_entries = <<>>
    /\ backoff = InitialBackoffMs
    /\ slept = 0
    /\ requests = 0
    /\ n429 = 0
    /\ resp = NoResponse
    /\ df = <<>>
    /\ saved = FALSE
    /\ fpc = "loop"
    /\ row = <<>>
    /\ dpc = "idle"
    /\ nc_path = <<>> /\ ais_df = <<>> /\ wanted = <<>> /\ call = <<>>
    /\ spc = "idle"
    /\ argv = <<>> /\ ais = <<>> /\ waves = <<>> /\ currs = <<>> /\ wind = <<>>
    /\ out = <<>> /\ out_csv = <<>> /\ jpc = "idle"

\* resp.status_code == 429: sleep(backoff), double the backoff, retry
RateLimited ==
    /\ fpc = "loop"
    /\ n429 < Max429
    /\ requests' = requests + 1
    /\ n429' = n429 + 1
    /\ resp' = [status |-> 429, entries |-> <<>>, nextOffset |-> <<>>]
    /\ slept' = backoff
    /\ backoff' = NextBackoff(backoff)
    /\ UNCHANGED <<target_rows, page_limit, offset, page, all_entries, df, saved, fpc>>
    /\ UNCHANGED <<derivedVars, sampleVars, joinVars>>

\* resp.status_code >= 400: raise RuntimeError
UpstreamError ==
    /\ fpc = "loop"
    /\ \E s \in ErrorStatuses :
         resp' = [status |-> s, entries |-> <<>>, nextOffset |-> <<>>]
    /\ requests' = requests + 1
    /\ fpc' = "error"
    /\ UNCHANGED <<target_rows, page_limit, offset, page, all_entries, backoff,
                   slept, n429, df, saved>>
    /\ UNCHANGED <<derivedVars, sampleVars, joinVars>>

\* a successful response with no entries: break
EmptyPage ==
    /\ fpc = "loop"
    /\ \E nx \in NextOffsets :
         resp' = [status |-> 200, entries |-> <<>>, nextOffset |-> nx]
    /\ requests' = requests + 1
    /\ fpc' = "flatten"
    /\ UNCHANGED <<target_rows, page_limit, offset, page, all_entries, backoff,
                   slept, n429, df, saved>>
    /\ UNCHANGED <<derivedVars, sampleVars, joinVars>>

\* a successful response with entries: extend, count the page, stop at the
\* target or advance the offset and pause
NonEmptyPage ==
    /\ fpc = "loop"
    /\ \E k \in 1 .. MaxPage, nx \in NextOffsets :
         /\ resp' = [status |-> 200, entries |-> PageEntries(requests + 1, k),
                     nextOffset |-> nx]
         /\ all_entries' = all_entries \o PageEntries(requests + 1, k)
         /\ IF TargetReached(Len(all_entries) + k, target_rows)
              THEN /\ fpc' = "flatten"
                   /\ UNCHANGED <<offset, slept>>
              ELSE /\ offset' = AdvanceOffset(offset, page_limit, nx)
                   /\ slept' = PoliteSleepMs
                   /\ fpc' = "loop"
    /\ requests' = requests + 1
    /\ page' = page + 1
    /\ UNCHANGED <<target_rows, page_limit, backoff, n429, df, saved>>
    /\ UNCHANGED <<derivedVars, sampleVars, joinVars>>

\* the accumulated entries cut to target_rows before the table is built
FlattenTruncated ==
    /\ fpc = "flatten"
    /\ IF all_entries = <<>>
         THEN df' = <<>> /\ saved' = FALSE
         ELSE /\ df' = JsonNormalize(SubSeq(all_entries, 1,
                                            Min(Len(all_entries), target_rows)))
              /\ saved' = TRUE
    /\ fpc' = "done"
    /\ UNCHANGED <<target_rows, page_limit, offset, page, all_entries, backoff,
                   slept, requests, n429, resp>>
    /\ UNCHANGED <<derivedVars, sampleVars, joinVars>>

\* after the loop: an empty DataFrame, or the normalized table saved to csv
Flatten ==
    /\ fpc = "flatten"
    /\ IF all_entries = <<>>
         THEN df' = <<>> /\ saved' = FALSE
         ELSE df' = JsonNormalize(all_entries) /\ saved' = TRUE
    /\ fpc' = "done"
    /\ UNCHANGED <<target_rows, page_limit, offset, page, all_entries, backoff,
                   slept, requests, n429, resp>>
    /\ UNCHANGED <<derivedVars, sampleVars, joinVars>>

FetchNext == RateLimited \/ UpstreamError \/ EmptyPage \/ NonEmptyPage \/ Flatten

SpecFetch == FetchInit /\ [][FetchNext]_vars
\* every request is eventually answered and the loop body runs to its end
SpecFetchLive == SpecFetch /\ WF_vars(FetchNext)

(***************************************************************************)
(* join_all.main, derived quantities (lines 126-154), on one row of out.   *)
(* Angles are integer degrees; a wind vector (u10, v10) has components in  *)
(* -1 .. 1, for which atan2 is a whole number of degrees.                  *)
(***************************************************************************)
MaxCog == 380       \* course over ground ranges over -MaxCog .. MaxCog
MaxDirK == 5        \* VMDR ranges over the multiples of 90 in -90*MaxDirK .. 90*MaxDirK

CogValues == (-MaxCog) .. MaxCog
VMDRValues == {90 * k : k \in (-MaxDirK) .. MaxDirK}
WindComponents == (-1) .. 1

\* np.degrees(np.arctan2(u, v)) for u, v in -1 .. 1
Atan2Deg(u, v) ==
    CASE u = 0 /\ v >= 0 -> 0
      [] u = 1 /\ v = 1 -> 45
      [] u = 1 /\ v = 0 -> 90
      [] u = 1 /\ v = -1 -> 135
      [] u = 0 /\ v = -1 -> 180
      [] u = -1 /\ v = -1 -> -135
      [] u = -1 /\ v = 0 -> -90
      [] u = -1 /\ v = 1 -> -45

\* the reflection taken about 180 instead of 360
FoldAngleShift(ang) == IF ang > 180 THEN ang - 180 ELSE ang
\* np.where(ang > 180, 360 - ang, ang)
FoldAngle(ang) == IF ang > 180 THEN 360 - ang ELSE ang

\* pd.cut with right=False: bins closed on the left
CutSectorLeftClosed(a) ==
    CASE 10 * a >= -1 /\ 10 * a < 300 -> "following"
      [] 10 * a >= 300 /\ 10 * a < 1500 -> "beam"
      [] 10 * a >= 1500 /\ 10 * a < 1800 -> "head"
      [] OTHER -> "NaN"
\* pd.cut(a, [-0.1, 30, 150, 180], labels=[following, beam, head]): bins
\* closed on the right (the default), compared in tenths of a degree
CutSector(a) ==
    CASE 10 * a > -1 /\ 10 * a <= 300 -> "following"
      [] 10 * a > 300 /\ 10 * a <= 1500 -> "beam"
      [] 10 * a > 1500 /\ 10 * a <= 1800 -> "head"
      [] OTHER -> "NaN"

HasCol(r, c) == c \in DOMAIN r

\* the rows of out before the derived columns: VMDR, cog, u10 and v10 are
\* each present or not
DerivedRows ==
    { wv @@ cg @@ wd :
        wv \in {<<>>} \cup {("VMDR" :> d) : d \in VMDRValues},
        cg \in {<<>>} \cup {("cog" :> c) : c \in CogValues},
        wd \in {<<>>} \cup {("u10" :> u) @@ ("v10" :> v) :
                              u \in WindComponents, v \in WindComponents} }

DerivedInit ==
    /\ row \in DerivedRows
    /\ dpc = "waves"
    /\ target_rows = 0 /\ page_limit = 0 /\ offset = 0 /\ page = 0
    /\ all_entries = <<>> /\ backoff = 0 /\ slept = 0 /\ requests = 0
    /\ n429 = 0 /\ resp = NoResponse /\ df = <<>> /\ saved = FALSE
    /\ fpc = "idle"
    /\ nc_path = <<>> /\ ais_df = <<>> /\ wanted = <<>> /\ call = <<>>
    /\ spc = "idle"
    /\ argv = <<>> /\ ais = <<>> /\ waves = <<>> /\ currs = <<>> /\ wind = <<>>
    /\ out = <<>> /\ out_csv = <<>> /\ jpc = "idle"

\* Derived: waves (rel_wave_angle, sea_sector), when VMDR and cog are there
DeriveWaves ==
    /\ dpc = "waves"
    /\ IF HasCol(row, "VMDR") /\ HasCol(row, "cog")
         THEN LET wave_to == (row["VMDR"] + 180) % 360
                  ang == Abs((wave_to - row["cog"]) % 360)
                  rel == FoldAngle(ang)
              IN  row' = ("rel_wave_angle" :> rel) @@ ("sea_sector" :> CutSector(rel))
                         @@ row
         ELSE row' = row
    /\ dpc' = "wind"
    /\ UNCHANGED <<fetchVars, sampleVars, joinVars>>

\* Derived: wind (wind_speed_ms, wind_dir_to, and rel_wind_angle with cog)
DeriveWind ==
    /\ dpc = "wind"
    /\ IF HasCol(row, "u10") /\ HasCol(row, "v10")
         THEN LET wind_dir_to == (Atan2Deg(row["u10"], row["v10"]) + 360) % 360
                  speed == <<"hypot", row["u10"], row["v10"]>>
                  withWind == ("wind_speed_ms" :> speed)
                              @@ ("wind_dir_to" :> wind_dir_to) @@ row
              IN  IF HasCol(row, "cog")
                    THEN LET wang == (wind_dir_to - row["cog"]) % 360
                         IN  row' = ("rel_wind_angle" :> FoldAngle(wang)) @@ withWind
                    ELSE row' = withWind
         ELSE row' = row
    /\ dpc' = "done"
    /\ UNCHANGED <<fetchVars, sampleVars, joinVars>>

DerivedNext == DeriveWaves \/ DeriveWind

SpecDerived == DerivedInit /\ [][DerivedNext]_vars

(***************************************************************************)
(* join_all.sample_vars_to_points                                          *)
(*                                                                         *)
(* An xarray dataset is the record                                         *)
(*   dims   : dimension name -> size                                       *)
(*   coords : coordinate name -> [dims, vals] (vals row-major, in the      *)
(*            file's index order)                                          *)
(*   vars   : data variable name -> its dimensions                         *)
(*   order  : dimension name -> the file indices in their current order    *)
(*            (sortby reorders every array along the dimension; the model  *)
(*            keeps the arrays and records the permutation)                *)
(* The value of a data variable at a grid node is identified by the node:  *)
(* a sampled array records, for every point, the file index picked along   *)
(* each lookup dimension.                                                  *)
(***************************************************************************)
Range(f) == {f[i] : i \in DOMAIN f}
MinOf(S) == CHOOSE m \in S : \A k \in S : m <= k
MaxOf(S) == CHOOSE m \in S : \A k \in S : m >= k
Iota(n) == [i \in 1 .. n |-> i]

\* next((n for n in cands if P(n)), None)
FirstOf(cands, P(_)) ==
    LET hits == {i \in 1 .. Len(cands) : P(cands[i])}
    IN  IF hits = {} THEN None ELSE cands[MinOf(hits)]

\* n in ds.coords
InCoords(ds, n) == n \in DOMAIN ds.coords
\* n in ds.dims
InDims(ds, n) == n \in DOMAIN ds.dims
\* n in ds.variables (coordinates and data variables)
InVariables(ds, n) == n \in DOMAIN ds.coords \/ n \in DOMAIN ds.vars
\* getattr(ds[n], "ndim", 1); ds[n] of a bare dimension is its 1-D index
Ndim(ds, n) ==
    IF n \in DOMAIN ds.coords THEN Len(ds.coords[n].dims)
    ELSE IF n \in DOMAIN ds.vars THEN Len(ds.vars[n])
    ELSE 1

\* the shape of a coordinate array
ShapeOf(ds, n) == [i \in 1 .. Len(ds.coords[n].dims) |-> ds.dims[ds.coords[n].dims[i]]]
\* a2d[r, c] of a 2-D coordinate array (1-based)
At2(ds, n, r, c) == ds.coords[n].vals[(r - 1) * ShapeOf(ds, n)[2] + c]

\* numpy.isclose(a, b) with rtol = 1e-5 and atol = 1e-8, on integers
IsClose(a, b) == Abs(a - b) * 100000000 <= 1 + 1000 * Abs(b)

\* lat2d[:, 0]
FirstColumn(ds, n) == [r \in 1 .. ShapeOf(ds, n)[1] |-> At2(ds, n, r, 1)]
\* lon2d[0, :]
FirstRow(ds, n) == [c \in 1 .. ShapeOf(ds, n)[2] |-> At2(ds, n, 1, c)]
\* np.allclose(lat2d, lat1d[:, None]): every row constant along the columns
CloseToColumn(ds, n, col) ==
    /\ Len(col) = ShapeOf(ds, n)[1]
    /\ \A r \in 1 .. ShapeOf(ds, n)[1], c \in 1 .. ShapeOf(ds, n)[2] :
         IsClose(At2(ds, n, r, c), col[r])
\* np.allclose(lon2d, lon1d[None, :]): every column constant along the rows
CloseToRow(ds, n, rw) ==
    /\ Len(rw) = ShapeOf(ds, n)[2]
    /\ \A r \in 1 .. ShapeOf(ds, n)[1], c \in 1 .. ShapeOf(ds, n)[2] :
         IsClose(At2(ds, n, r, c), rw[c])

\* the outcome of a call: still running, returned a mapping, or raised
Running(c) == c.status = "run"
Returned(c, mapping) == [c EXCEPT !.status = "returned", !.value = mapping]
Raised(c, e) == [c EXCEPT !.status = "raised", !.err = e]

NoDataset == [dims |-> <<>>, coords |-> <<>>, vars |-> <<>>, order |-> <<>>]
NewCall ==
    [status |-> "run", err |-> None, value |-> <<>>, ds |-> NoDataset,
     lat_name |-> None, lon_name |-> None, latn |-> None, lonn |-> None,
     tdim |-> None, avail |-> <<>>]

\* not nc_path or nc_path == "-" or not Path(nc_path).exists()
PathAbsent(nc) == nc.path = "" \/ nc.path = "-" \/ ~nc.exists

\* lines 21-24: return {} for an absent source, else xr.open_dataset, which
\* raises on a file it cannot read
OpenDataset(c, nc) ==
    IF PathAbsent(nc) THEN Returned(c, <<>>)
    ELSE IF ~nc.readable THEN Raised(c, "OpenError")
    ELSE [c EXCEPT !.ds = nc.field]

LatCandidates == <<"latitude", "lat", "nav_lat">>
LonCandidates == <<"longitude", "lon", "nav_lon">>

\* lines 27-30: find the lat/lon names, SystemExit when one is missing
FindLatLon(c) ==
    IF ~Running(c) THEN c
    ELSE LET lat_name == FirstOf(LatCandidates,
                                 LAMBDA n : InVariables(c.ds, n) \/ InCoords(c.ds, n))
             lon_name == FirstOf(LonCandidates,
                                 LAMBDA n : InVariables(c.ds, n) \/ InCoords(c.ds, n))
         IN  IF lat_name = None \/ lon_name = None
               THEN Raised(c, "MissingLatLon")
               ELSE [c EXCEPT !.lat_name = lat_name, !.lon_name = lon_name]

\* getattr(ds[lat_name], "ndim", 1) == 2 and "y" in ds.dims and "x" in ds.dims
Is2DGrid(ds, lat_name) ==
    Ndim(ds, lat_name) = 2 /\ InDims(ds, "y") /\ InDims(ds, "x")

\* ds.assign_coords(y=("y", lat1d), x=("x", lon1d))
AssignYX(ds, lat1d, lon1d) ==
    [ds EXCEPT !.coords = ("y" :> [dims |-> <<"y">>, vals |-> lat1d])
                          @@ ("x" :> [dims |-> <<"x">>, vals |-> lon1d])
                          @@ ds.coords]

\* lines 32-46: collapse separable 2-D lat/lon over (y, x) to 1-D y and x,
\* SystemExit on a non-separable grid
Collapse2D(c) ==
    IF ~Running(c) THEN c
    ELSE IF ~Is2DGrid(c.ds, c.lat_name) THEN c
    ELSE IF ~InCoords(c.ds, c.lat_name) \/ ~InCoords(c.ds, c.lon_name)
              \/ Ndim(c.ds, c.lon_name) # 2
           THEN Raised(c, "IndexError")
    ELSE LET lat1d == FirstColumn(c.ds, c.lat_name)
             lon1d == FirstRow(c.ds, c.lon_name)
         IN  IF CloseToColumn(c.ds, c.lat_name, lat1d)
                  /\ CloseToRow(c.ds, c.lon_name, lon1d)
               THEN IF Len(lat1d) = c.ds.dims["y"] /\ Len(lon1d) = c.ds.dims["x"]
                      THEN [c EXCEPT !.ds = AssignYX(c.ds, lat1d, lon1d),
                                     !.latn = "y", !.lonn = "x"]
                      ELSE Raised(c, "ValueError")
               ELSE Raised(c, "NonSeparableGrid")

\* pick1d: the first candidate that is a coordinate or a dimension and 1-D
Pick1dName(ds, cands) ==
    FirstOf(cands, LAMBDA n : (InCoords(ds, n) \/ InDims(ds, n)) /\ Ndim(ds, n) = 1)

\* lines 48-58: pick the 1-D coordinate names, SystemExit when there is none
Pick1D(c) ==
    IF ~Running(c) THEN c
    ELSE LET latn == IF c.latn = None
                       THEN Pick1dName(c.ds, <<"latitude", "lat", "y">>) ELSE c.latn
             lonn == IF c.lonn = None
                       THEN Pick1dName(c.ds, <<"longitude", "lon", "x">>) ELSE c.lonn
         IN  IF latn = None \/ lonn = None
               THEN Raised(c, "No1DLatLon")
               ELSE [c EXCEPT !.latn = latn, !.lonn = lonn]

\* ds.isel({tdim: 0}): the dimension goes, its coordinate becomes a scalar
Isel0(ds, t) ==
    [dims |-> [d \in DOMAIN ds.dims \ {t} |-> ds.dims[d]],
     coords |-> [n \in DOMAIN ds.coords |->
                   IF ds.coords[n].dims = <<t>>
                     THEN [dims |-> <<>>, vals |-> <<ds.coords[n].vals[ds.order[t][1]]>>]
                     ELSE ds.coords[n]],
     vars |-> [v \in DOMAIN ds.vars |-> SelectSeq(ds.vars[v], LAMBDA d : d # t)],
     order |-> [d \in DOMAIN ds.order \ {t} |-> ds.order[d]]]

TimeCandidates == <<"time", "valid_time", "step">>

\* lines 60-71: the first candidate that is a 1-D dimension is the time
\* dimension; one of length 1 is selected away and not used for the lookup
TimeHandling(c) ==
    IF ~Running(c) THEN c
    ELSE LET tdim == FirstOf(TimeCandidates,
                             LAMBDA n : InDims(c.ds, n) /\ Ndim(c.ds, n) = 1)
         IN  IF tdim # None /\ c.ds.dims[tdim] = 1
               THEN [c EXCEPT !.ds = Isel0(c.ds, tdim), !.tdim = None]
               ELSE [c EXCEPT !.tdim = tdim]

\* ds[wanted] used as is: a requested name the dataset lacks is a KeyError
KeepAvailStrict(c, wants) ==
    IF ~Running(c) THEN c
    ELSE IF \E i \in 1 .. Len(wants) : ~InVariables(c.ds, wants[i])
           THEN Raised(c, "KeyError")
    ELSE IF wants = <<>> THEN Returned(c, <<>>)
    ELSE [c EXCEPT !.avail = wants]
\* lines 73-76: keep the requested variables the dataset has; none: return {}
KeepAvail(c, wants) ==
    IF ~Running(c) THEN c
    ELSE LET avail == SelectSeq(wants, LAMBDA v : InVariables(c.ds, v))
         IN  IF avail = <<>> THEN Returned(c, <<>>)
             ELSE [c EXCEPT !.avail = avail]

\* the permutation of ord that sorts key ascending, ties in their old order
StableSort(ord, key) ==
    LET n == Len(ord)
        pos(x) == CHOOSE i \in 1 .. n : ord[i] = x
    IN  CHOOSE s \in [1 .. n -> Range(ord)] :
          /\ Range(s) = Range(ord)
          /\ \A i, j \in 1 .. n :
               i < j => \/ key[s[i]] < key[s[j]]
                        \/ (key[s[i]] = key[s[j]] /\ pos(s[i]) < pos(s[j]))

\* ds.sortby(c) for a 1-D coordinate c: reorder along its dimension
Sortby(ds, c) ==
    LET d == ds.coords[c].dims[1]
    IN  [ds EXCEPT !.order[d] = StableSort(ds.order[d], ds.coords[c].vals)]

\* if c and c in ds.coords and ndim == 1: ds = ds.sortby(c)
SortStep(ds, c) ==
    IF c # None /\ InCoords(ds, c) /\ Ndim(ds, c) = 1 THEN Sortby(ds, c) ELSE ds

\* lines 78-81: sort along the time, latitude and longitude coordinates
SortCoords(c) ==
    IF ~Running(c) THEN c
    ELSE [c EXCEPT !.ds = SortStep(SortStep(SortStep(c.ds, c.tdim), c.latn), c.lonn)]

\* the dimensions of a variable of the dataset
VarDims(ds, v) == IF v \in DOMAIN ds.vars THEN ds.vars[v] ELSE ds.coords[v].dims

\* pandas Index.get_indexer(method="nearest") on an ascending unique index:
\* the position of the nearest value, the larger one on a tie
NearestPos(sorted, q) ==
    LET left == {k \in 1 .. Len(sorted) : sorted[k] <= q}
        right == {k \in 1 .. Len(sorted) : sorted[k] >= q}
    IN  IF right = {} THEN MaxOf(left)
        ELSE IF left = {} THEN MinOf(right)
        ELSE IF q - sorted[MaxOf(left)] < sorted[MinOf(right)] - q
               THEN MaxOf(left) ELSE MinOf(right)

\* the coordinate values of dimension d in their current order
AxisValues(ds, d) == [k \in 1 .. ds.dims[d] |-> ds.coords[d].vals[ds.order[d][k]]]
\* the file index of the node nearest to q along dimension d
NearestIndex(ds, d, q) == ds.order[d][NearestPos(AxisValues(ds, d), q)]

\* the dimensions of a vectorized selection: every indexed dimension gives
\* way to "points", at the place of the first one
OutDims(vdims, keys) ==
    LET F[i \in 0 .. Len(vdims)] ==
          IF i = 0 THEN <<>>
          ELSE LET d == IF vdims[i] \in keys THEN "points" ELSE vdims[i]
               IN  IF d \in Range(F[i - 1]) THEN F[i - 1] ELSE Append(F[i - 1], d)
    IN  F[Len(vdims)]

\* lines 84-90: target[latn] = lat, target[lonn] = lon, target[tdim] = ts_utc
QueryValue(c, p, key) ==
    IF key = c.latn THEN p.lat ELSE IF key = c.lonn THEN p.lon ELSE p.ts_utc

\* the keys of the selection target
TargetKeys(c) == <<c.latn, c.lonn>> \o (IF c.tdim # None THEN <<c.tdim>> ELSE <<>>)

\* the dimensions of ds[avail]
SubsetDims(ds, avail) == UNION {Range(VarDims(ds, avail[i])) : i \in 1 .. Len(avail)}

\* a key of the target that .sel(method="nearest") can look up: a dimension
\* of ds[avail] with an index coordinate
Indexed(ds, avail, k) ==
    /\ k \in SubsetDims(ds, avail)
    /\ InCoords(ds, k)
    /\ ds.coords[k].dims = <<k>>

\* the error .sel raises for a key it cannot look up
SelKeyError(ds, avail, k) ==
    IF k \in SubsetDims(ds, avail) /\ ~InCoords(ds, k) THEN "ValueError" ELSE "KeyError"

\* sampled[v].values: the shape of the array and, per point, the file index
\* picked on every indexed dimension of v
SampledArray(c, points, v) ==
    LET vdims == VarDims(c.ds, v)
        keys == Range(TargetKeys(c))
        hit == Range(vdims) \cap keys
        odims == OutDims(vdims, keys)
    IN  [dims |-> odims,
         shape |-> [i \in 1 .. Len(odims) |->
                      IF odims[i] = "points" THEN Len(points) ELSE c.ds.dims[odims[i]]],
         picks |-> IF hit = {} THEN <<>>
                   ELSE [i \in 1 .. Len(points) |->
                           [d \in hit |-> NearestIndex(c.ds, d, QueryValue(c, points[i], d))]]]

\* the selection keeping only the first point
SelectFirstPointOnly(c, points) ==
    IF ~Running(c) THEN c
    ELSE Returned(c, [v \in Range(c.avail) |->
                        SampledArray(c, SubSeq(points, 1, Min(1, Len(points))), v)])
\* lines 83-94: ds[avail].sel(target, method="nearest") and the mapping of
\* the sampled arrays
Select(c, points) ==
    IF ~Running(c) THEN c
    ELSE LET keys == TargetKeys(c)
             bad == {i \in 1 .. Len(keys) : ~Indexed(c.ds, c.avail, keys[i])}
             dup == {i \in 1 .. Len(keys) :
                       Cardinality(Range(AxisValues(c.ds, keys[i]))) # c.ds.dims[keys[i]]}
         IN  IF bad # {} THEN Raised(c, SelKeyError(c.ds, c.avail, keys[MinOf(bad)]))
             ELSE IF dup # {} THEN Raised(c, "InvalidIndexError")
             ELSE Returned(c, [v \in Range(c.avail) |-> SampledArray(c, points, v)])

\* sample_vars_to_points(nc_path, ais_df, wanted): the whole call
SampleVarsToPoints(nc, points, wants) ==
    Select(SortCoords(KeepAvail(TimeHandling(Pick1D(Collapse2D(FindLatLon(
        OpenDataset(NewCall, nc))))), wants)), points)

\* what a call gives its caller: the mapping returned or the error raised
Outcome(c) == [status |-> c.status, err |-> c.err, value |-> c.value]

(***************************************************************************)
(* The datasets, sources and point series the calls are checked on         *)
(***************************************************************************)
MaxPoints == 2      \* an AIS series has 0 .. MaxPoints points
MaxCoord == 2       \* 1-D latitude values range over 0 .. MaxCoord

\* the requested names of main's three calls (lines 110-112)
WavesWanted == <<"VHM0", "VMDR", "VTM10", "VTPK">>
CurrsWanted == <<"uo", "vo", "eastward_current", "northward_current">>
WindWanted == <<"u10", "v10", "UGRD_10maboveground", "VGRD_10maboveground">>
WantedLists == {WavesWanted, CurrsWanted, WindWanted}

\* AIS points: latitude, longitude and timestamp in 0 .. 1, every pair of
\* the three taking all four combinations
PointValues ==
    {p \in [lat : 0 .. 1, lon : 0 .. 1, ts_utc : 0 .. 1] :
        p.ts_utc = (p.lat + p.lon) % 2}
PointSeries == UNION {[1 .. n -> PointValues] : n \in 0 .. MaxPoints}

Field(dims, coords, dvars) ==
    [dims |-> dims, coords |-> coords, vars |-> dvars,
     order |-> [d \in DOMAIN dims |-> Iota(dims[d])]]

Index1D(name, vals) == name :> [dims |-> <<name>>, vals |-> vals]

\* 1-D latitude and longitude index coordinates
Regular(la, lo, latAxis, lonAxis) ==
    [dims |-> (la :> Len(latAxis)) @@ (lo :> Len(lonAxis)),
     coords |-> Index1D(la, latAxis) @@ Index1D(lo, lonAxis),
     sdims |-> <<la, lo>>]

\* 2-D latitude and longitude over a 2 x 2 grid (rowDim, colDim), the two
\* dimensions with or without index coordinates of their own
Grid(la, lo, rowDim, colDim, lat2d, lon2d, indexed) ==
    [dims |-> (rowDim :> 2) @@ (colDim :> 2),
     coords |-> (la :> [dims |-> <<rowDim, colDim>>, vals |-> lat2d])
                @@ (lo :> [dims |-> <<rowDim, colDim>>, vals |-> lon2d])
                @@ (IF indexed
                      THEN Index1D(rowDim, <<0, 1>>) @@ Index1D(colDim, <<0, 1>>)
                      ELSE <<>>),
     sdims |-> <<rowDim, colDim>>]

Axes == UNION {[1 .. n -> 0 .. MaxCoord] : n \in 1 .. 2}
Matrices == [1 .. 4 -> 0 .. 1]
LonMatrices == {<<0, 1, 0, 1>>, <<1, 0, 1, 0>>, <<0, 1, 1, 0>>}

RegularLayouts ==
    {Regular("latitude", "longitude", a, b) : a \in Axes, b \in {<<0, 1>>, <<1, 0>>}}
    \cup {Regular("lat", "lon", <<0, 1>>, <<1, 0>>),
          Regular("y", "x", <<0, 1>>, <<0, 1>>),
          Regular("nav_lat", "nav_lon", <<0, 1>>, <<0, 1>>)}

GridConfigs ==
    {<<"latitude", "longitude", "y", "x", FALSE>>,
     <<"latitude", "longitude", "y", "x", TRUE>>,
     <<"nav_lat", "nav_lon", "y", "x", FALSE>>,
     <<"latitude", "longitude", "x", "y", FALSE>>,
     <<"latitude", "longitude", "j", "i", FALSE>>,
     <<"latitude", "longitude", "lat", "lon", TRUE>>,
     <<"latitude", "longitude", "lat", "lon", FALSE>>}
GridLayouts ==
    {Grid(g[1], g[2], g[3], g[4], m, n, g[5]) :
        g \in GridConfigs, m \in Matrices, n \in LonMatrices}

NoLatLonLayout ==
    [dims |-> ("row" :> 2) @@ ("col" :> 2), coords |-> <<>>, sdims |-> <<"row", "col">>]

\* a few layouts the time and variable layouts are combined with
CoreLayouts ==
    {Regular("latitude", "longitude", <<0, 1>>, <<0, 1>>),
     Regular("latitude", "longitude", <<1, 0>>, <<1, 0>>),
     Grid("latitude", "longitude", "y", "x", <<0, 0, 1, 1>>, <<0, 1, 0, 1>>, FALSE)}
\* layouts whose coordinates do not resolve, or resolve to the wrong axes
OddLayouts ==
    {NoLatLonLayout,
     Regular("y", "x", <<0, 1>>, <<0, 1>>),
     Regular("nav_lat", "nav_lon", <<0, 1>>, <<0, 1>>),
     Grid("latitude", "longitude", "y", "x", <<0, 1, 1, 0>>, <<0, 1, 0, 1>>, FALSE),
     Grid("latitude", "longitude", "lat", "lon", <<0, 1, 1, 0>>, <<0, 1, 1, 0>>, TRUE)}

TimeAxis(name, vals) == [name |-> name, vals |-> vals]
TimeLayouts ==
    {<<>>,
     <<TimeAxis("time", <<0>>)>>,
     <<TimeAxis("time", <<0, 1>>)>>,
     <<TimeAxis("time", <<1, 0>>)>>,
     <<TimeAxis("valid_time", <<1>>)>>,
     <<TimeAxis("step", <<0, 1>>)>>,
     <<TimeAxis("time", <<0>>), TimeAxis("valid_time", <<0, 1>>)>>,
     <<TimeAxis("valid_time", <<0>>), TimeAxis("time", <<0, 1>>)>>}

\* data variables and how each is dimensioned: "grid" (time dimensions, then
\* the two spatial ones), "depth1" and "levels" (a depth dimension of size 1
\* or 2 between them), "static" (spatial only), "scalar" (none)
VarLayouts ==
    {<<>>,
     "VHM0" :> "grid",
     ("VHM0" :> "grid") @@ ("VMDR" :> "grid"),
     ("uo" :> "grid") @@ ("vo" :> "grid"),
     "uo" :> "depth1",
     "VHM0" :> "levels",
     ("VHM0" :> "grid") @@ ("VMDR" :> "scalar"),
     "VHM0" :> "scalar",
     "VHM0" :> "static",
     ("VTPK" :> "grid") @@ ("u10" :> "grid")}

PatternDims(pattern, tdims, sdims) ==
    CASE pattern = "grid" -> tdims \o sdims
      [] pattern = "depth1" -> tdims \o <<"depth">> \o sdims
      [] pattern = "levels" -> tdims \o <<"level">> \o sdims
      [] pattern = "static" -> sdims
      [] pattern = "scalar" -> <<>>

\* the dataset of a spatial layout, a time layout and a variable layout
Assemble(sp, tl, vl) ==
    LET tdims == [i \in 1 .. Len(tl) |-> tl[i].name]
        axis(n) == tl[CHOOSE i \in 1 .. Len(tl) : tl[i].name = n].vals
        timeDims == [n \in Range(tdims) |-> Len(axis(n))]
        timeCoords == [n \in Range(tdims) |-> [dims |-> <<n>>, vals |-> axis(n)]]
        depthDims ==
            (IF \E v \in DOMAIN vl : vl[v] = "depth1" THEN "depth" :> 1 ELSE <<>>)
            @@ (IF \E v \in DOMAIN vl : vl[v] = "levels" THEN "level" :> 2 ELSE <<>>)
    IN  Field(sp.dims @@ timeDims @@ depthDims,
              sp.coords @@ timeCoords,
              [v \in DOMAIN vl |-> PatternDims(vl[v], tdims, sp.sdims)])

SampleFields ==
    {Assemble(sp, <<>>, "VHM0" :> "grid") : sp \in RegularLayouts \cup GridLayouts}
    \cup {Assemble(sp, tl, vl) : sp \in CoreLayouts, tl \in TimeLayouts, vl \in VarLayouts}
    \cup {Assemble(sp, tl, vl) :
            sp \in OddLayouts,
            tl \in {<<>>, <<TimeAxis("time", <<0>>)>>},
            vl \in {<<>>, "VHM0" :> "grid", ("uo" :> "grid") @@ ("vo" :> "grid")}}

Source(path, exists, readable, field) ==
    [path |-> path, exists |-> exists, readable |-> readable, field |-> field]
\* an empty path, the sentinel "-", a file that does not exist
AbsentSources ==
    {Source("", FALSE, FALSE, NoDataset),
     Source("-", FALSE, FALSE, NoDataset),
     Source("grid.nc", FALSE, FALSE, NoDataset)}
\* a file that exists and cannot be read
UnreadableSource == Source("grid.nc", TRUE, FALSE, NoDataset)
FileSource(f) == Source("grid.nc", TRUE, TRUE, f)

SampleSources ==
    AbsentSources \cup {UnreadableSource} \cup {FileSource(f) : f \in SampleFields}

SampleInit ==
    /\ nc_path \in SampleSources
    /\ ais_df \in PointSeries
    /\ wanted \in WantedLists
    /\ call = NewCall
    /\ spc = "open"
    /\ target_rows = 0 /\ page_limit = 0 /\ offset = 0 /\ page = 0
    /\ all_entries = <<>> /\ backoff = 0 /\ slept = 0 /\ requests = 0
    /\ n429 = 0 /\ resp = NoResponse /\ df = <<>> /\ saved = FALSE
    /\ fpc = "idle"
    /\ row = <<>> /\ dpc = "idle"
    /\ argv = <<>> /\ ais = <<>> /\ waves = <<>> /\ currs = <<>> /\ wind = <<>>
    /\ out = <<>> /\ out_csv = <<>> /\ jpc = "idle"

\* the locals after a step, and where the call goes on
Advance(next, after) ==
    /\ call' = after
    /\ spc' = IF Running(after) THEN next ELSE "done"
    /\ UNCHANGED <<nc_path, ais_df, wanted>>
    /\ UNCHANGED <<fetchVars, derivedVars, joinVars>>

StepOpen ==
    /\ spc = "open"
    /\ Advance("find", OpenDataset(call, nc_path))
StepFindLatLon ==
    /\ spc = "find"
    /\ Advance("collapse", FindLatLon(call))
StepCollapse2D ==
    /\ spc = "collapse"
    /\ Advance("pick", Collapse2D(call))
StepPick1D ==
    /\ spc = "pick"
    /\ Advance("time", Pick1D(call))
StepTimeHandling ==
    /\ spc = "time"
    /\ Advance("avail", TimeHandling(call))
StepKeepAvail ==
    /\ spc = "avail"
    /\ Advance("sort", KeepAvail(call, wanted))
StepSortCoords ==
    /\ spc = "sort"
    /\ Advance("select", SortCoords(call))
StepSelect ==
    /\ spc = "select"
    /\ Advance("done", Select(call, ais_df))

SampleNext ==
    \/ StepOpen \/ StepFindLatLon \/ StepCollapse2D \/ StepPick1D
    \/ StepTimeHandling \/ StepKeepAvail \/ StepSortCoords \/ StepSelect

SpecSample == SampleInit /\ [][SampleNext]_vars

(***************************************************************************)
(* join_all.main: read the AIS table, sample the three sources, build the  *)
(* output table and write it. A table is the record                        *)
(*   columns : the column names, in order                                  *)
(*   rows    : one record per row: the number of the csv row it was read   *)
(*             from, its point, and its cell in every sampled column       *)
(* The derived columns are added by name here; their values are the        *)
(* subject of the derived-quantities section above.                        *)
(***************************************************************************)
\* the csv headers of the AIS file
AisHeaders ==
    {<<"timestamp", "Latitude", "Longitude", "SOG", "COG">>,
     <<"ts_utc", "lat", "lon", "cog">>,
     <<"timestamp", "Latitude", "SOG">>}

\* line 104: the columns main renames
AisRename ==
    ("timestamp" :> "ts_utc") @@ ("Latitude" :> "lat") @@ ("Longitude" :> "lon")
    @@ ("SOG" :> "sog") @@ ("COG" :> "cog")

\* df.rename(columns=mapping) on the column names
Rename(columns, mapping) ==
    [i \in 1 .. Len(columns) |->
        IF columns[i] \in DOMAIN mapping THEN mapping[columns[i]] ELSE columns[i]]

\* lines 103-107: pd.read_csv, the rename, and the required columns
ReadCsv(csv) ==
    LET columns == Rename(csv.header, AisRename)
    IN  [ok |-> {"ts_utc", "lat", "lon"} \subseteq Range(columns),
         columns |-> columns,
         rows |-> [i \in 1 .. Len(csv.points) |->
                     [id |-> i, point |-> csv.points[i], sampled |-> <<>>]]]

\* the points of a table, as sample_vars_to_points reads them
PointsOf(table) == [i \in 1 .. Len(table.rows) |-> table.rows[i].point]

\* out[k] = v for a numpy array v: a 0-d array is broadcast, an array of
\* shape (N,) or (N, 1) is the column, anything else is a ValueError
Assignable(table, arr) ==
    \/ arr.shape = <<>>
    \/ arr.shape = <<Len(table.rows)>>
    \/ arr.shape = <<Len(table.rows), 1>>

\* the cell of row i: the node picked for the row's point, or the one value
\* of a variable sampled on no lookup axis
CellOf(arr, i) == IF arr.picks = <<>> THEN <<>> ELSE arr.picks[i]

\* out[k] = v
SetColumn(table, k, arr) ==
    [table EXCEPT
       !.columns = IF k \in Range(table.columns) THEN @ ELSE Append(@, k),
       !.rows = [i \in 1 .. Len(table.rows) |->
                   [table.rows[i] EXCEPT !.sampled = (k :> CellOf(arr, i)) @@ @]]]

\* for k, v in mapping.items(): out[k] = v, in the order of avail
RECURSIVE SetColumns(_, _, _)
SetColumns(table, c, i) ==
    IF ~table.ok \/ i > Len(c.avail) \/ c.value = <<>> THEN table
    ELSE IF ~Assignable(table, c.value[c.avail[i]]) THEN [table EXCEPT !.ok = FALSE]
    ELSE SetColumns(SetColumn(table, c.avail[i], c.value[c.avail[i]]), c, i + 1)

\* lines 121-124: the aliases of wind and currents
Aliases ==
    ("UGRD_10maboveground" :> "u10") @@ ("VGRD_10maboveground" :> "v10")
    @@ ("eastward_current" :> "uo") @@ ("northward_current" :> "vo")

\* lines 121-124: out.rename(columns=...) for each alias the table has
Standardize(table) ==
    [table EXCEPT
       !.columns = Rename(@, Aliases),
       !.rows = [i \in 1 .. Len(table.rows) |->
                   [table.rows[i] EXCEPT !.sampled =
                      LET old == table.rows[i].sampled
                          new(k) == IF k \in DOMAIN Aliases THEN Aliases[k] ELSE k
                      IN  [n \in {new(k) : k \in DOMAIN old} |->
                             old[CHOOSE k \in DOMAIN old : new(k) = n]]]]]

\* lines 126-154: the derived columns, each added when its inputs are there
DerivedColumns(columns) ==
    LET has(c) == c \in Range(columns)
        waveCols == IF has("VMDR") /\ has("cog")
                      THEN <<"rel_wave_angle", "sea_sector">> ELSE <<>>
        currCols == IF has("uo") /\ has("vo") /\ has("cog")
                      THEN <<"along_current_kn", "cross_current_kn">>
                           \o (IF has("sog") THEN <<"stw_est_kn">> ELSE <<>>)
                      ELSE <<>>
        windCols == IF has("u10") /\ has("v10")
                      THEN <<"wind_speed_ms", "wind_dir_to">>
                           \o (IF has("cog") THEN <<"rel_wind_angle">> ELSE <<>>)
                      ELSE <<>>
    IN  (IF has("VHM0") THEN <<"stormy">> ELSE <<>>) \o waveCols \o currCols \o windCols

\* a call not made yet
NotCalled == NewCall

\* the sources main is run on: each of the three is absent, unreadable, or
\* one of a few files
WindGrid ==
    Grid("latitude", "longitude", "y", "x", <<0, 0, 1, 1>>, <<0, 1, 0, 1>>, FALSE)
WaveFiles ==
    {Assemble(Regular("latitude", "longitude", <<0, 1>>, <<0, 1>>),
              <<TimeAxis("time", <<0, 1>>)>>, ("VHM0" :> "grid") @@ ("VMDR" :> "grid")),
     Assemble(Regular("latitude", "longitude", <<1, 0>>, <<1, 0>>),
              <<TimeAxis("time", <<0>>)>>, "VHM0" :> "grid"),
     Assemble(Regular("latitude", "longitude", <<0, 1>>, <<0, 1>>),
              <<>>, "VHM0" :> "levels"),
     Assemble(Regular("latitude", "longitude", <<0, 1>>, <<0, 1>>),
              <<>>, ("VHM0" :> "grid") @@ ("VMDR" :> "scalar")),
     Assemble(Grid("latitude", "longitude", "y", "x", <<0, 1, 1, 0>>, <<0, 1, 0, 1>>,
                   FALSE),
              <<>>, "VHM0" :> "grid")}
CurrFiles ==
    {Assemble(Regular("latitude", "longitude", <<0, 1>>, <<0, 1>>),
              <<TimeAxis("time", <<0, 1>>)>>, ("uo" :> "grid") @@ ("vo" :> "grid")),
     Assemble(Regular("latitude", "longitude", <<0, 1>>, <<0, 1>>),
              <<TimeAxis("time", <<0, 1>>)>>, "uo" :> "depth1"),
     Assemble(Regular("latitude", "longitude", <<0, 1>>, <<0, 1>>),
              <<TimeAxis("time", <<0>>)>>, "uo" :> "depth1")}
WindFiles ==
    {Assemble(Regular("latitude", "longitude", <<0, 1>>, <<1, 0>>),
              <<TimeAxis("time", <<1, 0>>)>>, ("u10" :> "grid") @@ ("v10" :> "grid")),
     Assemble(WindGrid, <<TimeAxis("valid_time", <<1>>)>>,
              ("UGRD_10maboveground" :> "grid") @@ ("VGRD_10maboveground" :> "grid")),
     Assemble(NoLatLonLayout, <<>>, "u10" :> "grid")}

JoinSources(files) ==
    AbsentSources \cup {UnreadableSource} \cup {FileSource(f) : f \in files}

\* the command line: ais.csv waves.nc currents.nc wind10m.nc
JoinArgs ==
    [ais_csv : [header : AisHeaders, points : PointSeries],
     waves_nc : JoinSources(WaveFiles),
     curr_nc : JoinSources(CurrFiles),
     wind_nc : JoinSources(WindFiles)]

NoTable == [ok |-> FALSE, columns |-> <<>>, rows |-> <<>>]

JoinInit ==
    /\ argv \in JoinArgs
    /\ ais = NoTable /\ out = NoTable /\ out_csv = NoTable
    /\ waves = NotCalled /\ currs = NotCalled /\ wind = NotCalled
    /\ jpc = "read"
    /\ target_rows = 0 /\ page_limit = 0 /\ offset = 0 /\ page = 0
    /\ all_entries = <<>> /\ backoff = 0 /\ slept = 0 /\ requests = 0
    /\ n429 = 0 /\ resp = NoResponse /\ df = <<>> /\ saved = FALSE
    /\ fpc = "idle"
    /\ row = <<>> /\ dpc = "idle"
    /\ nc_path = <<>> /\ ais_df = <<>> /\ wanted = <<>> /\ call = <<>>
    /\ spc = "idle"

\* lines 103-107: read the AIS csv; SystemExit on a missing required column
ReadAis ==
    /\ jpc = "read"
    /\ ais' = ReadCsv(argv.ais_csv)
    /\ jpc' = IF ais'.ok THEN "waves" ELSE "failed"
    /\ UNCHANGED <<argv, waves, currs, wind, out, out_csv>>
    /\ UNCHANGED <<fetchVars, derivedVars, sampleVars>>

\* line 110; an exception of the call ends main
SampleWaves ==
    /\ jpc = "waves"
    /\ waves' = SampleVarsToPoints(argv.waves_nc, PointsOf(ais), WavesWanted)
    /\ jpc' = IF waves'.status = "returned" THEN "currs" ELSE "failed"
    /\ UNCHANGED <<argv, ais, currs, wind, out, out_csv>>
    /\ UNCHANGED <<fetchVars, derivedVars, sampleVars>>

\* line 111
SampleCurrents ==
    /\ jpc = "currs"
    /\ currs' = SampleVarsToPoints(argv.curr_nc, PointsOf(ais), CurrsWanted)
    /\ jpc' = IF currs'.status = "returned" THEN "wind" ELSE "failed"
    /\ UNCHANGED <<argv, ais, waves, wind, out, out_csv>>
    /\ UNCHANGED <<fetchVars, derivedVars, sampleVars>>

\* line 112
SampleWind ==
    /\ jpc = "wind"
    /\ wind' = SampleVarsToPoints(argv.wind_nc, PointsOf(ais), WindWanted)
    /\ jpc' = IF wind'.status = "returned" THEN "build" ELSE "failed"
    /\ UNCHANGED <<argv, ais, waves, currs, out, out_csv>>
    /\ UNCHANGED <<fetchVars, derivedVars, sampleVars>>

\* lines 115-118: out = ais.copy() and one column per sampled array; a
\* ValueError of an assignment ends main
BuildOutput ==
    /\ jpc = "build"
    /\ out' = SetColumns(SetColumns(SetColumns(ais, waves, 1), currs, 1), wind, 1)
    /\ jpc' = IF out'.ok THEN "derive" ELSE "failed"
    /\ UNCHANGED <<argv, ais, waves, currs, wind, out_csv>>
    /\ UNCHANGED <<fetchVars, derivedVars, sampleVars>>

\* lines 121-154: the aliases renamed and the derived columns added
DeriveColumns ==
    /\ jpc = "derive"
    /\ out' = LET std == Standardize(out)
              IN  [std EXCEPT !.columns = @ \o DerivedColumns(@)]
    /\ jpc' = "write"
    /\ UNCHANGED <<argv, ais, waves, currs, wind, out_csv>>
    /\ UNCHANGED <<fetchVars, derivedVars, sampleVars>>

\* line 156: out.to_csv(out_csv, index=False)
WriteCsv ==
    /\ jpc = "write"
    /\ out_csv' = out
    /\ jpc' = "done"
    /\ UNCHANGED <<argv, ais, waves, currs, wind, out>>
    /\ UNCHANGED <<fetchVars, derivedVars, sampleVars>>

JoinNext ==
    \/ ReadAis \/ SampleWaves \/ SampleCurrents \/ SampleWind
    \/ BuildOutput \/ DeriveColumns \/ WriteCsv

SpecJoin == JoinInit /\ [][JoinNext]_vars

\* lines 110-112: the three calls, each with its source and requested names
Calls ==
    <<[c |-> waves, nc |-> argv.waves_nc, wants |-> WavesWanted],
      [c |-> currs, nc |-> argv.curr_nc, wants |-> CurrsWanted],
      [c |-> wind, nc |-> argv.wind_nc, wants |-> WindWanted]>>

\* lines 84-93: every dimension of variable v is a key of the target, and
\* there is one
OnLookupAxes(c, v) ==
    /\ Range(VarDims(c.ds, v)) # {}
    /\ Range(VarDims(c.ds, v)) \subseteq Range(TargetKeys(c))

(***************************************************************************)
(* Claims about fetch_events_recent                                        *)
(***************************************************************************)

\* C8: every 429 answer sleeps for the current backoff and retries the same
\* request: offset, page counter and accumulated entries are unchanged and the
\* loop goes on. The delay starts at 1 s, doubles after each 429 up to the
\* cap, and neither the backoff nor any sleep ever exceeds 30 s.
C8_RateLimitRetry ==
    /\ [](/\ backoff >= 1000 /\ backoff <= 30000 /\ slept <= 30000
          /\ (n429 = 0 => backoff = 1000))
    /\ [][(requests' # requests /\ resp'.status = 429) =>
            /\ fpc = "loop" /\ fpc' = "loop"
            /\ offset' = offset /\ page' = page /\ all_entries' = all_entries
            /\ slept' = backoff
            /\ backoff' = IF 2 * backoff > 30000 THEN 30000 ELSE 2 * backoff]_vars

\* C8 witness: a 429 answered at the cap: the sleep was 30 s and the backoff
\* stays 30 s.
C8_Witness == resp.status = 429 /\ slept = 30000 /\ backoff = 30000 /\ fpc = "loop"

\* C9: the loop is left normally exactly when a successful response has no
\* entries or the accumulated entries reached target_rows; no request is
\* issued after the loop is left; and, the server answering 429 only finitely
\* often, the function always terminates (normally or with the fatal error).
C9_LoopExit ==
    /\ [](fpc \in {"flatten", "done"} =>
            /\ resp.status = 200
            /\ (resp.entries = <<>> \/ Len(all_entries) >= target_rows))
    /\ [](fpc = "error" => resp.status >= 400 /\ resp.status # 429)
    /\ [][(fpc = "loop" /\ requests' # requests /\ resp'.status = 200) =>
            (fpc' = "flatten" <=>
               (resp'.entries = <<>> \/ Len(all_entries') >= target_rows))]_vars
    /\ [][fpc # "loop" => requests' = requests]_vars
    /\ <>(fpc \in {"done", "error"})

\* C9 witness: a normal return after some 429s and at least two pages, the
\* target reached.
C9_Witness ==
    /\ fpc = "done" /\ n429 > 0 /\ page >= 2
    /\ Len(all_entries) >= target_rows

\* C10: nothing accumulated is truncated: entries only grow by appending the
\* whole successful page, the returned table has one row per accumulated
\* entry in the order received (so it may exceed target_rows, but by less
\* than the last page received), it is saved when not empty, and the offset
\* changes only on a successful non-empty page, to nextOffset when given and
\* by page_limit otherwise.
C10_NoTruncation ==
    /\ [][(requests' # requests /\ resp'.status = 200) =>
            all_entries' = all_entries \o resp'.entries]_vars
    /\ [][all_entries' # all_entries =>
            (requests' # requests /\ resp'.status = 200)]_vars
    /\ [](fpc = "done" =>
            /\ Len(df) = Len(all_entries)
            /\ \A i \in 1 .. Len(all_entries) : df[i].entry = all_entries[i]
            /\ saved = (all_entries # <<>>)
            /\ Len(df) < target_rows + Len(resp.entries))
    /\ [][offset' # offset =>
            /\ requests' # requests /\ resp'.status = 200 /\ resp'.entries # <<>>
            /\ offset' = IF resp'.nextOffset = <<>> THEN offset + page_limit
                         ELSE resp'.nextOffset[1]]_vars

\* C10 witness: a normal return with more rows than target_rows after the
\* offset has advanced.
C10_Witness == fpc = "done" /\ Len(df) > target_rows /\ offset > 0 /\ saved

(***************************************************************************)
(* Claims about the derived quantities                                     *)
(***************************************************************************)

\* C6 as stated: sea_sector is following exactly on [0,30), beam exactly on
\* [30,150) and head exactly on [150,180].
C6_SectorAsClaimed ==
    HasCol(row, "sea_sector") =>
        LET a == row["rel_wave_angle"]
            s == row["sea_sector"]
        IN  /\ (s = "following") <=> (0 <= a /\ a < 30)
            /\ (s = "beam") <=> (30 <= a /\ a < 150)
            /\ (s = "head") <=> (150 <= a /\ a <= 180)

\* C6 amended: the bins are closed on the right: sea_sector is following
\* exactly on [0,30], beam exactly on (30,150] and head exactly on (150,180];
\* every relative wave angle gets exactly one of the three sectors.
C6_SectorRightClosed ==
    HasCol(row, "sea_sector") =>
        LET a == row["rel_wave_angle"]
            s == row["sea_sector"]
        IN  /\ s \in {"following", "beam", "head"}
            /\ (s = "following") <=> (0 <= a /\ a <= 30)
            /\ (s = "beam") <=> (30 < a /\ a <= 150)
            /\ (s = "head") <=> (150 < a /\ a <= 180)

\* C6 witness: a row whose relative wave angle is exactly 30 was bucketed,
\* and got following.
C6_Witness ==
    /\ dpc = "done" /\ HasCol(row, "sea_sector")
    /\ row["rel_wave_angle"] = 30 /\ row["sea_sector"] = "following"

\* C7: rel_wave_angle is fold(((VMDR + 180) mod 360 - cog) mod 360) with
\* fold(x) = x if x <= 180 else 360 - x; it lies in [0,180], is the angular
\* distance between the wave-to direction and the course, and maps 0 to 0,
\* 180 to 180 and 200 to 160. rel_wind_angle is the same fold of
\* (wind_dir_to - cog) mod 360, also in [0,180].
C7_RelativeAngles ==
    /\ HasCol(row, "rel_wave_angle") =>
         LET x == (((row["VMDR"] + 180) % 360) - row["cog"]) % 360
             r == row["rel_wave_angle"]
         IN  /\ r = (IF x <= 180 THEN x ELSE 360 - x)
             /\ r \in 0 .. 180
             /\ (r - (row["VMDR"] + 180 - row["cog"])) % 360 = 0
                \/ (r + (row["VMDR"] + 180 - row["cog"])) % 360 = 0
             /\ (x = 0 => r = 0) /\ (x = 180 => r = 180) /\ (x = 200 => r = 160)
    /\ HasCol(row, "rel_wind_angle") =>
         LET x == (row["wind_dir_to"] - row["cog"]) % 360
             r == row["rel_wind_angle"]
         IN  /\ r = (IF x <= 180 THEN x ELSE 360 - x)
             /\ r \in 0 .. 180
             /\ (x = 0 => r = 0) /\ (x = 180 => r = 180) /\ (x = 200 => r = 160)
    /\ (dpc # "waves" /\ HasCol(row, "VMDR") /\ HasCol(row, "cog"))
         => HasCol(row, "rel_wave_angle")
    /\ (dpc = "done" /\ HasCol(row, "u10") /\ HasCol(row, "v10") /\ HasCol(row, "cog"))
         => HasCol(row, "rel_wind_angle")

\* C7 witness: a wave direction of a full turn and a negative course whose
\* difference is 200 before the fold, 160 after it, with a wind angle as well.
C7_Witness ==
    /\ dpc = "done" /\ HasCol(row, "rel_wave_angle") /\ HasCol(row, "rel_wind_angle")
    /\ row["VMDR"] >= 360 /\ row["cog"] < 0
    /\ (((row["VMDR"] + 180) % 360) - row["cog"]) % 360 = 200
    /\ row["rel_wave_angle"] = 160
    /\ row["rel_wind_angle"] > 90

(***************************************************************************)
(* Claims about sample_vars_to_points                                      *)
(***************************************************************************)

\* C2 as stated: a field whose latitude and longitude are 2-D and fail the
\* separability check (latitude not constant along the columns or longitude
\* not constant along the rows) ends the call with the non-separable-grid
\* error, whatever the two dimensions are named and whatever other 1-D
\* coordinates the field carries; no values are returned.
C2_NonSeparableRejected ==
    (spc = "done" /\ ~PathAbsent(nc_path) /\ nc_path.readable) =>
        LET found == FindLatLon(OpenDataset(NewCall, nc_path))
            ds == found.ds
            la == found.lat_name
            lo == found.lon_name
        IN  (/\ Running(found)
             /\ InCoords(ds, la) /\ InCoords(ds, lo)
             /\ Ndim(ds, la) = 2 /\ Ndim(ds, lo) = 2
             /\ ~(/\ CloseToColumn(ds, la, FirstColumn(ds, la))
                  /\ CloseToRow(ds, lo, FirstRow(ds, lo))))
            => (call.status = "raised" /\ call.err = "NonSeparableGrid")

\* C3 as stated: a field with a time dimension of length 1 is sampled like
\* the field with that dimension selected away, for every point series and
\* wanted list; and a time dimension is a lookup axis only when it is 1-D and
\* longer than one.
C3_SingletonTimeCollapse ==
    (spc = "done" /\ ~PathAbsent(nc_path) /\ nc_path.readable) =>
        /\ \A t \in Range(TimeCandidates) :
             (InDims(nc_path.field, t) /\ nc_path.field.dims[t] = 1) =>
                 Outcome(call) =
                     Outcome(SampleVarsToPoints(FileSource(Isel0(nc_path.field, t)),
                                                ais_df, wanted))
        /\ (call.tdim # None) =>
             (Ndim(call.ds, call.tdim) = 1 /\ call.ds.dims[call.tdim] > 1)

C1_AlignedAsClaimed ==
    LET pts == argv.ais_csv.points
    IN  /\ \A k \in 1 .. 3 :
             Calls[k].c.status = "returned" =>
                 \A v \in DOMAIN Calls[k].c.value :
                     LET arr == Calls[k].c.value[v]
                     IN  /\ Len(arr.shape) >= 1 /\ arr.shape[1] = Len(pts)
                         /\ Len(arr.picks) = Len(pts)
                         /\ \A i \in 1 .. Len(pts) :
                              arr.picks[i] =
                                  SampleVarsToPoints(Calls[k].nc, <<pts[i]>>,
                                                     Calls[k].wants).value[v].picks[1]
        /\ (jpc \in {"done", "failed"} /\ \A k \in 1 .. 3 : Calls[k].c.status = "returned")
             => /\ jpc = "done"
                /\ Len(out_csv.rows) = Len(pts)
                /\ \A i \in 1 .. Len(pts) :
                     out_csv.rows[i].id = i /\ out_csv.rows[i].point = pts[i]

\* C1 amended: whenever a call returns, every variable of the mapping whose
\* dimensions (a singleton time dimension apart) are lookup axes, and at
\* least one, has an array of shape (N,), whose i-th element is the node
\* sampled for the i-th point alone, a node at minimal distance from the
\* point on every lookup axis. When main writes, it writes one row per input
\* point in input order, each row carrying the cells sampled for its point;
\* and main does write when the AIS table has its required columns, no call
\* raises and every returned variable is so dimensioned.
C1_AlignedOnLookupAxes ==
    LET pts == argv.ais_csv.points
        cell(k, v, i) == Calls[k].c.value[v].picks[i]
        alias(v) == IF v \in DOMAIN Aliases THEN Aliases[v] ELSE v
    IN  /\ \A k \in 1 .. 3 :
             Calls[k].c.status = "returned" =>
                 \A v \in DOMAIN Calls[k].c.value :
                     OnLookupAxes(Calls[k].c, v) =>
                         LET c == Calls[k].c
                             arr == c.value[v]
                         IN  /\ arr.shape = <<Len(pts)>>
                             /\ Len(arr.picks) = Len(pts)
                             /\ \A i \in 1 .. Len(pts) :
                                  /\ arr.picks[i] =
                                       SampleVarsToPoints(Calls[k].nc, <<pts[i]>>,
                                                          Calls[k].wants).value[v].picks[1]
                                  /\ \A d \in DOMAIN arr.picks[i] :
                                       LET q == IF d = c.latn THEN pts[i].lat
                                                ELSE IF d = c.lonn THEN pts[i].lon
                                                ELSE pts[i].ts_utc
                                           axis == c.ds.coords[d].vals
                                       IN  \A j \in 1 .. Len(axis) :
                                             Abs(axis[arr.picks[i][d]] - q) <= Abs(axis[j] - q)
        /\ jpc = "done" =>
             /\ Len(out_csv.rows) = Len(pts)
             /\ \A i \in 1 .. Len(pts) :
                  /\ out_csv.rows[i].id = i /\ out_csv.rows[i].point = pts[i]
                  /\ \A k \in 1 .. 3 : \A v \in DOMAIN Calls[k].c.value :
                       OnLookupAxes(Calls[k].c, v) =>
                           out_csv.rows[i].sampled[alias(v)] = cell(k, v, i)
        /\ (/\ jpc \in {"done", "failed"}
            /\ ais.ok
            /\ \A k \in 1 .. 3 :
                 /\ Calls[k].c.status = "returned"
                 /\ \A v \in DOMAIN Calls[k].c.value : OnLookupAxes(Calls[k].c, v))
             => jpc = "done"

\* C1 witness: main wrote two rows for two points; the wave field's VHM0 was
\* sampled on latitude, longitude and time at a different node for each.
C1_Witness ==
    /\ jpc = "done" /\ Len(argv.ais_csv.points) = 2 /\ Len(out_csv.rows) = 2
    /\ waves.status = "returned" /\ "VHM0" \in DOMAIN waves.value
    /\ waves.tdim = "time"
    /\ OnLookupAxes(waves, "VHM0")
    /\ waves.value["VHM0"].shape = <<2>>
    /\ waves.value["VHM0"].picks[1] # waves.value["VHM0"].picks[2]
    /\ out_csv.rows[2].sampled["VHM0"] = waves.value["VHM0"].picks[2]

\* C5 as stated: a source whose path is empty, is "-", names no file, or
\* names a file that cannot be read gives the empty mapping without raising,
\* and main completes and writes one row per AIS point whatever sources are
\* absent.
C5_AbsentSourceEmpty ==
    /\ \A k \in 1 .. 3 :
         (Calls[k].c.status # "run"
          /\ Calls[k].nc \in AbsentSources \cup {UnreadableSource})
             => (Calls[k].c.status = "returned" /\ Calls[k].c.value = <<>>)
    /\ (jpc = "failed" /\ ais.ok) =>
         \A k \in 1 .. 3 :
             Calls[k].c.status = "raised" =>
                 Calls[k].nc \notin AbsentSources \cup {UnreadableSource}
    /\ jpc = "done" => Len(out_csv.rows) = Len(argv.ais_csv.points)

====
